---------------------------- MODULE Spec2Model ----------------------------
(***************************************************************************)
(* A model of uno.py: a two-player UNO round, human (player 0) against a   *)
(* computer (player 1).  Physical cards are the indices of Deck; the piles *)
(* and the hands are sequences of such indices, the last element of a pile *)
(* being its top (list.pop() / list[-1]).                                  *)
(***************************************************************************)
EXTENDS Integers, Sequences, FiniteSets, TLC

(***************************************************************************)
(* Bounds.  The source builds 4 colours, digits 0..9, two copies of every  *)
(* digit but 0 and of every action, 4 wilds of each kind and deals 7 cards;*)
(* the model builds the same deck shape from smaller numbers.              *)
(***************************************************************************)
\* colours of COLORS that build_deck iterates over (source: all 4)
NumColors == 2
\* highest digit built (source: 9)
MaxDigit == 0
\* copies of every non-zero digit and of every action card (source: 2)
Copies == 1
\* iterations of the wild loop, one Wild and one Wild Draw Four each (source: 4)
NumWilds == 1
\* cards dealt to each player (source: 7)
DealSize == 2
\* lists up to this length are shuffled to any permutation, longer ones to
\* a rotation of the list or of its reverse
FullShuffleLen == 3
\* turns (human or computer) the model follows a round for
MaxTurns == 5
\* largest computer hand of the positions a computer turn is started from
MaxCpuHand == 5
\* largest human hand of those positions
MaxOpponent == 4

----------------------------------------------------------------------------
(* Module constants *)

COLORS == <<"Red", "Green", "Blue", "Yellow">>
VALUES_NUM == <<"0", "1", "2", "3", "4", "5", "6", "7", "8", "9">>
VALUES_ACTION == <<"Skip", "Reverse", "Draw Two">>
WILD == "Wild"
WILD4 == "Wild Draw Four"
\* the colour of a wild card (Python's None)
None == "None"

ColorSet == {COLORS[i] : i \in 1..Len(COLORS)}
DigitSet == {VALUES_NUM[i] : i \in 1..Len(VALUES_NUM)}

Card(color, value) == [color |-> color, value |-> value]

----------------------------------------------------------------------------
(* Sequence helpers *)

Last(s) == s[Len(s)]
Front(s) == SubSeq(s, 1, Len(s) - 1)
Reverse(s) == [i \in 1..Len(s) |-> s[Len(s) + 1 - i]]
Range(s) == {s[i] : i \in 1..Len(s)}
Max2(a, b) == IF a >= b THEN a ELSE b

RECURSIVE Repeat(_, _)
Repeat(s, n) == IF n <= 0 THEN <<>> ELSE s \o Repeat(s, n - 1)

\* list.remove(x): drops the first occurrence of x
RemoveFirst(s, x) ==
    LET i == CHOOSE k \in 1..Len(s) : s[k] = x /\ \A j \in 1..(k - 1) : s[j] # x
    IN  SubSeq(s, 1, i - 1) \o SubSeq(s, i + 1, Len(s))

IsPermutation(s, t) ==
    /\ Len(s) = Len(t)
    /\ \A x \in Range(s) \cup Range(t) :
          Cardinality({i \in 1..Len(s) : s[i] = x}) =
          Cardinality({i \in 1..Len(t) : t[i] = x})

Rotate(s, k) == [i \in 1..Len(s) |-> s[((i - 1 + k) % Len(s)) + 1]]

\* random.shuffle(s): the orders the model lets a shuffle produce
Shuffles(s) ==
    IF Len(s) <= 1 THEN {s}
    ELSE IF Len(s) <= FullShuffleLen
         THEN {[i \in 1..Len(s) |-> s[p[i]]] : p \in Permutations(1..Len(s))}
         ELSE {Rotate(s, k) : k \in 0..(Len(s) - 1)}
              \cup {Rotate(Reverse(s), k) : k \in 0..(Len(s) - 1)}

----------------------------------------------------------------------------
(* Card & deck *)

\* the numbers build_deck is written with
LastDigit == 9
CopiesBuilt == 2
WildRounds == 4
\* cards __init__ deals to each player
DealRounds == 7

RECURSIVE NumberCards(_, _, _, _)
NumberCards(color, v, maxDigit, copies) ==
    IF v > maxDigit THEN <<>>
    ELSE Repeat(<<Card(color, VALUES_NUM[v + 1])>>, copies)
         \o NumberCards(color, v + 1, maxDigit, copies)

RECURSIVE ActionCards(_, _, _)
ActionCards(color, a, copies) ==
    IF a > Len(VALUES_ACTION) THEN <<>>
    ELSE Repeat(<<Card(color, VALUES_ACTION[a])>>, copies)
         \o ActionCards(color, a + 1, copies)

RECURSIVE ColorCards(_, _, _, _)
ColorCards(c, numColors, maxDigit, copies) ==
    IF c > numColors THEN <<>>
    ELSE <<Card(COLORS[c], "0")>> \o NumberCards(COLORS[c], 1, maxDigit, copies)
         \o ActionCards(COLORS[c], 1, copies)
         \o ColorCards(c + 1, numColors, maxDigit, copies)

\* mutant: the wild loop runs once more
DeckList_extra_wilds(numColors, maxDigit, copies, numWilds) ==
    ColorCards(1, numColors, maxDigit, copies)
    \o Repeat(<<Card(None, WILD), Card(None, WILD4)>>, numWilds + 1)

\* the list build_deck holds before its shuffle, for given loop lengths
DeckList(numColors, maxDigit, copies, numWilds) ==
    ColorCards(1, numColors, maxDigit, copies)
    \o Repeat(<<Card(None, WILD), Card(None, WILD4)>>, numWilds)

\* build_deck before its shuffle: the 108 cards in construction order.  A
\* physical card is its index in this list.
Deck == DeckList(Len(COLORS), LastDigit, CopiesBuilt, WildRounds)
AllIds == 1..Len(Deck)

color(c) == Deck[c].color
value(c) == Deck[c].value

\* the k-th copy of a card: a position of Deck holding it, preceded by
\* k - 1 others holding it
Nth(card, k) ==
    CHOOSE n \in AllIds :
        /\ Deck[n] = card
        /\ Cardinality({m \in 1..n : Deck[m] = card}) = k

\* the corresponding physical cards of a list of cards in which every card
\* occurs at most as often as in Deck
Physical(cards) ==
    [i \in 1..Len(cards) |->
        Nth(cards[i], Cardinality({m \in 1..i : cards[m] = cards[i]}))]

\* the cards a bounded round is played with: build_deck's loops cut short
PlayDeck == Physical(DeckList(NumColors, MaxDigit, Copies, NumWilds))
DeckSize == Len(PlayDeck)
CardIds == Range(PlayDeck)

\* build_deck: the shuffled deck, as a sequence of physical cards
build_deck == Shuffles(PlayDeck)

\* mutant: only the plain Wild counts as wild
is_wild_plain_only(c) == value(c) = WILD

is_wild(c) == value(c) \in {WILD, WILD4}
isdigit(v) == v \in DigitSet

\* mutant: every card matches
matches_anything(c, top_color, top_value) == TRUE

matches(c, top_color, top_value) ==
    is_wild(c) \/ color(c) = top_color \/ value(c) = top_value

\* Card.code: the colour's initial and the value's abbreviation
code(c) ==
    IF value(c) = WILD THEN <<"", "W">>
    ELSE IF value(c) = WILD4 THEN <<"", "WD4">>
    ELSE LET ci == CASE color(c) = "Red" -> "R" [] color(c) = "Green" -> "G"
                     [] color(c) = "Blue" -> "B" [] color(c) = "Yellow" -> "Y"
                     [] OTHER -> ""
         IN  IF value(c) = "Skip" THEN <<ci, "SKIP">>
             ELSE IF value(c) = "Reverse" THEN <<ci, "REV">>
             ELSE IF value(c) = "Draw Two" THEN <<ci, "+2">>
             ELSE <<ci, value(c)>>

----------------------------------------------------------------------------
(* Game state *)

VARIABLES
    draw_pile,      \* UnoGame.draw_pile, top last
    discard_pile,   \* UnoGame.discard_pile, top last
    hands,          \* hands[i]: players[i].hand, i = 0 the human, 1 the computer
    current_idx,    \* UnoGame.current_idx
    direction,      \* UnoGame.direction
    current_color,  \* UnoGame.current_color
    current_value,  \* UnoGame.current_value
    pc,             \* "flip": in the initial flip loop; "loop": at the top of
                    \* play's loop; "input": human_turn waits for a choice;
                    \* "over": play has returned
    turns,          \* the turns completed so far
    obs             \* what the last step did: its outcome (the message it
                    \* printed), the acting player, the card concerned, the
                    \* colour chosen, and the refills and draws it made

vars == <<draw_pile, discard_pile, hands, current_idx, direction,
          current_color, current_value, pc, turns, obs>>

\* players = [Player("You", True), Player("Computer", False)]
NumPlayers == 2
Players == 0..(NumPlayers - 1)
is_human(p) == p = 0

\* the fields of UnoGame
Core(g) == [draw_pile |-> g.draw_pile, discard_pile |-> g.discard_pile,
            hands |-> g.hands, current_idx |-> g.current_idx,
            direction |-> g.direction, current_color |-> g.current_color,
            current_value |-> g.current_value]

\* the game as the operations below transform it, with the step's record of
\* its refills and draws
Cur == [draw_pile |-> draw_pile, discard_pile |-> discard_pile,
        hands |-> hands, current_idx |-> current_idx,
        direction |-> direction, current_color |-> current_color,
        current_value |-> current_value, refills |-> <<>>, draws |-> <<>>,
        uno |-> "none"]

----------------------------------------------------------------------------
(* Player.draw, pile maintenance, turn order *)

\* mutant: the cards drawn stay on the draw pile
draw_keeps_pile(g, p, count, why) ==
    LET n == IF count <= Len(g.draw_pile) THEN count ELSE Len(g.draw_pile)
        drawn == [i \in 1..n |-> g.draw_pile[Len(g.draw_pile) + 1 - i]]
    IN  [g EXCEPT !.hands[p] = @ \o drawn,
                  !.draws = Append(@, [who |-> p, count |-> count, why |-> why,
                                       got |-> n, avail |-> Len(g.draw_pile),
                                       discards |-> Len(g.discard_pile)])]

\* Player.draw(pile, count): pops up to count cards off the top of the draw
\* pile and appends them to the hand in the order popped
draw(g, p, count, why) ==
    LET n == IF count <= Len(g.draw_pile) THEN count ELSE Len(g.draw_pile)
        drawn == [i \in 1..n |-> g.draw_pile[Len(g.draw_pile) + 1 - i]]
    IN  [g EXCEPT !.draw_pile = SubSeq(@, 1, Len(@) - n),
                  !.hands[p] = @ \o drawn,
                  !.draws = Append(@, [who |-> p, count |-> count, why |-> why,
                                       got |-> n, avail |-> Len(g.draw_pile),
                                       discards |-> Len(g.discard_pile)])]

\* the cards the last draw of g put in the hand (draw's return value)
drawn_of(g, p) ==
    LET n == g.draws[Len(g.draws)].got
    IN  SubSeq(g.hands[p], Len(g.hands[p]) - n + 1, Len(g.hands[p]))

\* mutant: the discard pile is not reset to its top card
refill_keeps_discard(g) ==
    IF g.draw_pile = <<>> /\ Len(g.discard_pile) > 1
    THEN {[g EXCEPT !.draw_pile = rest] : rest \in Shuffles(Front(g.discard_pile))}
    ELSE {g}

\* mutant: a recycle keeps the bottom card of the discard pile, not the top
refill_keeps_bottom(g) ==
    IF g.draw_pile = <<>> /\ Len(g.discard_pile) > 1
    THEN {[g EXCEPT !.draw_pile = rest, !.discard_pile = <<g.discard_pile[1]>>] :
             rest \in Shuffles(Tail(g.discard_pile))}
    ELSE {g}

\* UnoGame._refill_draw_pile_if_needed: the games it can leave
refill_draw_pile_if_needed(g) ==
    IF g.draw_pile = <<>> /\ Len(g.discard_pile) > 1
    THEN {[g EXCEPT !.draw_pile = rest, !.discard_pile = <<Last(g.discard_pile)>>] :
             rest \in Shuffles(Front(g.discard_pile))}
    ELSE {g}

\* the same, recorded in the step's refills
Refill(g) ==
    {[h EXCEPT !.refills = Append(@, [pre |-> Core(g), post |-> Core(h)])] :
        h \in refill_draw_pile_if_needed(g)}

next_player_index(g) == (g.current_idx + g.direction) % NumPlayers

----------------------------------------------------------------------------
(* Core helpers *)

\* mutant: wild cards are left out unless they match by value
playable_cards_no_wild(g, hand) ==
    SelectSeq(hand, LAMBDA c : color(c) = g.current_color \/ value(c) = g.current_value)

playable_cards(g, hand) ==
    SelectSeq(hand, LAMBDA c : matches(c, g.current_color, g.current_value))

\* mutant: a Wild Draw Four is always allowed
can_play_wd4_always(g, hand) == TRUE

can_play_wd4(g, hand) ==
    \A i \in 1..Len(hand) : ~(color(hand[i]) = g.current_color /\ ~is_wild(hand[i]))

\* mutant: Reverse skips nobody
skips_next_skip_only(card) == value(card) = "Skip"

\* place_card's effects: Skip and Reverse skip the next player
skips_next(card) == value(card) = "Skip" \/ value(card) = "Reverse"

\* mutant: every wild makes the next player draw four
forced_draw_any_wild(card) ==
    IF value(card) = "Draw Two" THEN 2 ELSE IF is_wild(card) THEN 4 ELSE 0

\* place_card's effects: the cards the next player is made to draw
forced_draw(card) ==
    IF value(card) = "Draw Two" THEN 2 ELSE IF value(card) = WILD4 THEN 4 ELSE 0

\* UnoGame.place_card(player, card, chosen_color): the games it can leave
place_card(g, p, card, chosen_color) ==
    LET g1 == [g EXCEPT !.hands[p] = RemoveFirst(@, card),
                        !.discard_pile = Append(@, card)]
        colors == IF is_wild(card)
                  THEN (IF chosen_color # None THEN {chosen_color} ELSE ColorSet)
                  ELSE {color(card)}
        forced(h, n) ==
            LET victim_idx == next_player_index(h)
            IN  {[[d EXCEPT !.current_idx = victim_idx]
                     EXCEPT !.current_idx =
                         next_player_index([d EXCEPT !.current_idx = victim_idx])] :
                    d \in {draw(r, victim_idx, n, value(card)) : r \in Refill(h)}}
    IN  UNION {
          LET g2 == [g1 EXCEPT !.current_color = col, !.current_value = value(card)]
          IN  IF skips_next(card)
              THEN {[g2 EXCEPT !.current_idx = next_player_index(g2)]}
              ELSE IF forced_draw(card) > 0 THEN forced(g2, forced_draw(card))
              ELSE {g2}
          : col \in colors}

\* UnoGame._maybe_check_uno(player): a human left with one card either types
\* "uno" or draws the penalty
maybe_check_uno(g, p) ==
    IF Len(g.hands[p]) = 1
    THEN IF is_human(p)
         THEN {[g EXCEPT !.uno = "declared"]}
              \cup {draw([r EXCEPT !.uno = "penalty"], p, 2, "penalty") : r \in Refill(g)}
         ELSE {[g EXCEPT !.uno = "Computer says UNO!"]}
    ELSE {g}

\* the tail shared by every play of a turn: place_card, _maybe_check_uno,
\* then the turn's own advance
play_and_advance(g, p, card, chosen_color) ==
    {[u EXCEPT !.current_idx = next_player_index(u)] :
        u \in UNION {maybe_check_uno(h, p) :
                        h \in place_card(g, p, card, chosen_color)}}

\* mutant: a pass leaves the turn with the same player
pass_keeps_turn(g) == g
pass(g) == [g EXCEPT !.current_idx = next_player_index(g)]

----------------------------------------------------------------------------
(* Human turn.  Every operation returns the outcomes it can have, each a   *)
(* record of the game left, the message printed (op), the card concerned   *)
(* and the colour chosen.                                                  *)

NoCard == 0
Outcome(g, op, card, chosen) == [g |-> g, op |-> op, card |-> card, chosen |-> chosen]

\* the codes a human can type: the code of every card of the deck, and one
\* that is the code of no card
UnknownCode == <<"", "?">>
Codes == {code(c) : c \in CardIds} \cup {UnknownCode}

\* UnoGame._find_card_by_code: the first card of the hand with that code
\* (the long forms "red 4", "wild" resolve to the same card as the code)
find_card_by_code(hand, text) ==
    IF \E i \in 1..Len(hand) : code(hand[i]) = text
    THEN hand[CHOOSE i \in 1..Len(hand) :
                  code(hand[i]) = text /\ \A j \in 1..(i - 1) : code(hand[j]) # text]
    ELSE NoCard

\* what a human can type at the prompt besides d and q: an index (a number,
\* 1-based) or a code
Choices(hand) ==
    {<<"index", n>> : n \in 0..(Len(hand) + 1)} \cup {<<"code", t>> : t \in Codes}

\* _prompt_color_choice, asked only for a wild card
prompt_color_choice(card) == IF is_wild(card) THEN ColorSet ELSE {None}

\* human_turn, choice d: draw one card and play it (yn) or pass
human_draw(g, p, yn) ==
    UNION {
      LET d == draw(r, p, 1, "turn")
      IN  IF d.draws[Len(d.draws)].got = 0
          THEN {Outcome(pass(d), "No cards to draw! Passing.", NoCard, None)}
          ELSE LET card == drawn_of(d, p)[1]
               IN  IF /\ matches(card, d.current_color, d.current_value)
                      /\ (value(card) # WILD4 \/ can_play_wd4(d, d.hands[p]))
                      /\ yn
                   THEN UNION {
                          {Outcome(h, "You play the drawn card.", card, chosen_color) :
                              h \in play_and_advance(d, p, card, chosen_color)}
                          : chosen_color \in prompt_color_choice(card)}
                   ELSE {Outcome(pass(d),
                                 "You didn't (or couldn't) play the drawn card. Turn passes.",
                                 card, None)}
      : r \in Refill(g)}

\* human_turn, an index or a code: a rejected choice goes round the loop
\* (continue), an accepted one is placed
human_select(g, p, choice) ==
    LET hand == g.hands[p]
        idx == choice[2] - 1
        card == IF choice[1] = "index"
                THEN (IF 0 <= idx /\ idx < Len(hand) THEN hand[idx + 1] ELSE NoCard)
                ELSE find_card_by_code(hand, choice[2])
        again(op) == {Outcome(r, op, card, None) : r \in Refill(g)}
    IN  IF card = NoCard
        THEN again(IF choice[1] = "index" THEN "Invalid index."
                   ELSE "Couldn't parse that. Try again.")
        ELSE IF ~matches(card, g.current_color, g.current_value)
        THEN again("You can't play that card right now.")
        ELSE IF value(card) = WILD4 /\ ~can_play_wd4(g, hand)
        THEN again("Illegal WD4: You still have the active color in your hand.")
        ELSE UNION {
               {Outcome(h, "You play.", card, chosen_color) :
                   h \in play_and_advance(g, p, card, chosen_color)}
               : chosen_color \in prompt_color_choice(card)}

Rejections == {"Invalid index.", "Couldn't parse that. Try again.",
               "You can't play that card right now.",
               "Illegal WD4: You still have the active color in your hand."}

----------------------------------------------------------------------------
(* CPU turn *)

\* UnoGame._cpu_choose_color: the colours it can return
\* mutant: among the colours held most, the last of COLORS is chosen
cpu_choose_color_last_max(g, p) ==
    LET hand == g.hands[p]
        counts(col) == Cardinality({i \in 1..Len(hand) : color(hand[i]) = col})
    IN  IF \A i \in 1..Len(hand) : color(hand[i]) = None
        THEN ColorSet
        ELSE {COLORS[CHOOSE i \in 1..Len(COLORS) :
                  /\ \A j \in 1..Len(COLORS) : counts(COLORS[j]) <= counts(COLORS[i])
                  /\ \A j \in (i + 1)..Len(COLORS) : counts(COLORS[j]) < counts(COLORS[i])]}

cpu_choose_color(g, p) ==
    LET hand == g.hands[p]
        counts(col) == Cardinality({i \in 1..Len(hand) : color(hand[i]) = col})
    IN  IF \A i \in 1..Len(hand) : color(hand[i]) = None
        THEN ColorSet
        ELSE {COLORS[CHOOSE i \in 1..Len(COLORS) :
                  /\ \A j \in 1..Len(COLORS) : counts(COLORS[j]) <= counts(COLORS[i])
                  /\ \A j \in 1..(i - 1) : counts(COLORS[j]) < counts(COLORS[i])]}

\* The parts of score of _cpu_choose_best_card, in tenths.

\* mutant: a duplicated digit earns nothing
duplicate_score_none(g, p, card) == 0

\* "Prefer values we can duplicate"
duplicate_score(g, p, card) ==
    LET hand == g.hands[p]
        num_count == Cardinality({i \in 1..Len(hand) :
                         isdigit(value(hand[i])) /\ value(hand[i]) = value(card)})
    IN  IF isdigit(value(card)) /\ num_count > 1 THEN 100 ELSE 0

\* "Prefer colors we hold many of", "bleed oversupplied colors"
color_score(g, p, card) ==
    LET hand == g.hands[p]
        col_count == Cardinality({i \in 1..Len(hand) :
                         color(hand[i]) # None /\ color(hand[i]) = color(card)})
    IN  IF color(card) # None
        THEN 20 * col_count + 2 * Max2(0, col_count - 2) ELSE 0

\* "Action cards when opponent is low"
action_score(opponent_cards, card) ==
      (IF value(card) \in {"Skip", "Reverse"}
       THEN (IF opponent_cards <= 2 THEN 70 ELSE 30) ELSE 0)
    + (IF value(card) = "Draw Two"
       THEN (IF opponent_cards <= 3 THEN 120 ELSE 80) ELSE 0)

\* mutant: a Wild always scores as if it were the only playable card
wild_score_must_use(playable, card) ==
    IF value(card) = WILD THEN 10 + 60 ELSE 0

\* "Wild usage policy: save them unless needed", the plain Wild
wild_score(playable, card) ==
    IF value(card) = WILD
    THEN 10 + (IF Len(playable) = 1 THEN 60 ELSE 0) ELSE 0

\* mutant: a Wild Draw Four is not penalised for a held active colour
wd4_score_no_penalty(g, p, opponent_cards, card) ==
    IF value(card) = WILD4
    THEN 90 + (IF opponent_cards <= 3 THEN 60 ELSE 0)
    ELSE 0

\* the Wild Draw Four: "Only legal if no other color matches"
wd4_score(g, p, opponent_cards, card) ==
    LET hand == g.hands[p]
        has_color_match_other_than_wild ==
            \E i \in 1..Len(hand) : color(hand[i]) = g.current_color /\ ~is_wild(hand[i])
    IN  IF value(card) = WILD4
        THEN (IF has_color_match_other_than_wild THEN -1000
              ELSE 90 + (IF opponent_cards <= 3 THEN 60 ELSE 0))
        ELSE 0

\* "Slight preference for matching the current number"
run_score(g, card) ==
    IF value(card) = g.current_value /\ isdigit(value(card)) THEN 20 ELSE 0

score(g, p, playable, opponent_cards, card) ==
      duplicate_score(g, p, card)
    + color_score(g, p, card)
    + action_score(opponent_cards, card)
    + wild_score(playable, card)
    + wd4_score(g, p, opponent_cards, card)
    + run_score(g, card)

\* mutant: the first card of the hand is chosen, playable or not
cpu_choose_best_card_first_of_hand(g, p, playable, opponent_cards) == g.hands[p][1]

\* max(playable, key=score): the first card of the highest score
cpu_choose_best_card(g, p, playable, opponent_cards) ==
    LET sc(i) == score(g, p, playable, opponent_cards, playable[i])
    IN  playable[CHOOSE i \in 1..Len(playable) :
                     /\ \A j \in 1..Len(playable) : sc(j) <= sc(i)
                     /\ \A j \in 1..(i - 1) : sc(j) < sc(i)]

cpu_turn(g0, p) ==
    UNION {
      LET playable == playable_cards(g, g.hands[p])
      IN  IF playable = <<>>
          THEN LET d == draw(g, p, 1, "turn")
               IN  IF d.draws[Len(d.draws)].got = 0
                   THEN {Outcome(pass(d), "Computer cannot draw (empty pile). Passing.",
                                 NoCard, None)}
                   ELSE LET card == drawn_of(d, p)[1]
                        IN  IF /\ matches(card, d.current_color, d.current_value)
                               /\ (value(card) # WILD4 \/ can_play_wd4(d, d.hands[p]))
                            THEN UNION {
                                   {Outcome(h, "Computer plays drawn card.", card, col) :
                                       h \in play_and_advance(d, p, card, col)}
                                   : col \in (IF is_wild(card) THEN cpu_choose_color(d, p)
                                              ELSE {None})}
                            ELSE {Outcome(pass(d), "Computer passes.", card, None)}
          ELSE LET opponent_cards == Len(g.hands[0])
                   card == cpu_choose_best_card(g, p, playable, opponent_cards)
               IN  UNION {
                     {Outcome(h, "Computer plays.", card, col) :
                         h \in play_and_advance(g, p, card, col)}
                     : col \in (IF is_wild(card) THEN cpu_choose_color(g, p)
                                ELSE {None})}
      : g \in Refill(g0)}

----------------------------------------------------------------------------
(* Construction *)

\* UnoGame.__init__ up to the deal: each player draws one card in turn,
\* DealSize times over
RECURSIVE deal(_, _)
deal(g, k) ==
    IF k = 0 THEN g
    ELSE deal(draw(draw(g, 0, 1, "deal"), 1, 1, "deal"), k - 1)

\* one round of the loop of _flip_initial_discard_and_apply_effect
flip_initial(g) ==
    LET top == Last(g.draw_pile)
        popped == [g EXCEPT !.draw_pile = Front(@)]
    IN  IF is_wild(top)
        THEN {Outcome([popped EXCEPT !.draw_pile = s], "flip again", top, None) :
                 s \in Shuffles(<<top>> \o popped.draw_pile)}
        ELSE LET g1 == [popped EXCEPT !.discard_pile = Append(@, top),
                                      !.current_color = color(top),
                                      !.current_value = value(top)]
             IN  IF value(top) = "Skip" \/ value(top) = "Reverse"
                 THEN {Outcome([g1 EXCEPT !.current_idx = next_player_index(g1)],
                               "Starting card", top, None)}
                 ELSE IF value(top) = "Draw Two"
                 THEN {Outcome(pass(draw(g1, g1.current_idx, 2, "startup")),
                               "Starting card", top, None)}
                 ELSE {Outcome(g1, "Starting card", top, None)}

----------------------------------------------------------------------------
(* The state machine *)

Commit(o, who, newpc, newturns) ==
    /\ draw_pile' = o.g.draw_pile
    /\ discard_pile' = o.g.discard_pile
    /\ hands' = o.g.hands
    /\ current_idx' = o.g.current_idx
    /\ direction' = o.g.direction
    /\ current_color' = o.g.current_color
    /\ current_value' = o.g.current_value
    /\ pc' = newpc
    /\ turns' = newturns
    /\ obs' = [op |-> o.op, who |-> who, card |-> o.card, chosen |-> o.chosen,
               refills |-> o.g.refills, draws |-> o.g.draws, uno |-> o.g.uno]

Init ==
    \E deck \in build_deck :
        LET g == deal([draw_pile |-> deck, discard_pile |-> <<>>,
                       hands |-> [p \in Players |-> <<>>], current_idx |-> 0,
                       direction |-> 1, current_color |-> None,
                       current_value |-> None, refills |-> <<>>, draws |-> <<>>,
                       uno |-> "none"],
                      DealSize)
        IN  /\ draw_pile = g.draw_pile
            /\ discard_pile = g.discard_pile
            /\ hands = g.hands
            /\ current_idx = g.current_idx
            /\ direction = g.direction
            /\ current_color = g.current_color
            /\ current_value = g.current_value
            /\ pc = "flip"
            /\ turns = 0
            /\ obs = [op |-> "deal", who |-> 0, card |-> NoCard, chosen |-> None,
                      refills |-> g.refills, draws |-> g.draws, uno |-> g.uno]

\* __init__: one round of the initial flip
FlipInitial ==
    /\ pc = "flip"
    /\ \E o \in flip_initial(Cur) :
          Commit(o, current_idx, IF o.op = "flip again" THEN "flip" ELSE "loop", turns)

\* mutant: the win check looks at the first player only
SomeoneWon_first_only == Len(hands[0]) = 0

SomeoneWon == \E p \in Players : Len(hands[p]) = 0

\* play: the win check finds an empty hand and the round is over
Win ==
    /\ pc = "loop"
    /\ SomeoneWon
    /\ LET p == CHOOSE q \in Players :
                    Len(hands[q]) = 0 /\ \A r \in 0..(q - 1) : Len(hands[r]) # 0
       IN  Commit(Outcome(Cur, "wins!", NoCard, None), p, "over", turns)

\* play enters human_turn, which refills the draw pile and prompts
HumanPrompt ==
    /\ pc = "loop"
    /\ ~SomeoneWon
    /\ is_human(current_idx)
    /\ turns < MaxTurns
    /\ \E g \in Refill(Cur) :
          Commit(Outcome(g, "prompt", NoCard, None), current_idx, "input", turns)

\* choice q
HumanQuit ==
    /\ pc = "input"
    /\ Commit(Outcome(Cur, "Goodbye!", NoCard, None), current_idx, "over", turns)

\* choice d
HumanDraw ==
    /\ pc = "input"
    /\ \E o \in UNION {human_draw(Cur, current_idx, yn) : yn \in BOOLEAN} :
              Commit(o, current_idx, "loop", turns + 1)

\* an index or a code
HumanSelect ==
    /\ pc = "input"
    /\ \E o \in UNION {human_select(Cur, current_idx, choice) :
                          choice \in Choices(hands[current_idx])} :
              IF o.op \in Rejections
              THEN Commit(o, current_idx, "input", turns)
              ELSE Commit(o, current_idx, "loop", turns + 1)

\* play runs cpu_turn
CpuTurn ==
    /\ pc = "loop"
    /\ ~SomeoneWon
    /\ ~is_human(current_idx)
    /\ turns < MaxTurns
    /\ \E o \in cpu_turn(Cur, current_idx) : Commit(o, current_idx, "loop", turns + 1)

Next ==
    \/ FlipInitial
    \/ Win
    \/ HumanPrompt
    \/ HumanQuit
    \/ HumanDraw
    \/ HumanSelect
    \/ CpuTurn

Spec == Init /\ [][Next]_vars

----------------------------------------------------------------------------
(* Computer turns from positions of a full-deck round: the computer is to  *)
(* move, holds some cards of CpuPool, the human holds some of HumanPool,   *)
(* one card of TopPool is the whole discard pile and all other cards of    *)
(* the deck are in the draw pile.                                          *)

PoolCards ==
    Physical(<< \* the computer's cards
                Card("Red", "4"), Card("Green", "4"), Card("Blue", "Skip"),
                Card("Blue", "Draw Two"), Card("Blue", "1"), Card("Blue", "2"),
                Card("Blue", "3"), Card("Blue", "5"), Card("Yellow", "7"),
                Card(None, WILD), Card(None, WILD4),
                \* the human's cards
                Card("Yellow", "1"), Card("Yellow", "2"), Card("Yellow", "3"),
                Card("Yellow", "5"), Card("Yellow", "6"), Card("Yellow", "8"),
                \* the top of the discard pile
                Card("Blue", "4"), Card("Red", "9"), Card(None, WILD) >>)
CpuPool == SubSeq(PoolCards, 1, 11)
HumanPool == SubSeq(PoolCards, 12, 17)
TopPool == SubSeq(PoolCards, 18, 20)

\* the elements of s at the positions in S, in the order of s
Sub(s, S) ==
    LET idx == SelectSeq([i \in 1..Len(s) |-> i], LAMBDA i : i \in S)
    IN  [k \in 1..Len(idx) |-> s[idx[k]]]

\* the computer's hands: up to MaxCpuHand cards of CpuPool, in the order of
\* the pool or in the opposite order
CpuHands ==
    UNION {{Sub(CpuPool, S), Reverse(Sub(CpuPool, S))} :
              S \in {T \in SUBSET (1..Len(CpuPool)) :
                        Cardinality(T) >= 1 /\ Cardinality(T) <= MaxCpuHand}}

InitCpu ==
    \E hand \in CpuHands, n \in 1..MaxOpponent, top \in Range(TopPool), col \in ColorSet :
        /\ color(top) # None => col = color(top)
        /\ LET theirs == SubSeq(HumanPool, 1, n)
               out == Range(hand) \cup Range(theirs) \cup {top}
           IN  /\ draw_pile = SelectSeq([i \in AllIds |-> i], LAMBDA c : c \notin out)
               /\ discard_pile = <<top>>
               /\ hands = [p \in Players |-> IF is_human(p) THEN theirs ELSE hand]
               /\ current_idx = 1
               /\ direction = 1
               /\ current_color = col
               /\ current_value = value(top)
               /\ pc = "loop"
               /\ turns = 0
               /\ obs = [op |-> "position", who |-> 0, card |-> NoCard, chosen |-> None,
                         refills |-> <<>>, draws |-> <<>>, uno |-> "none"]

NextCpu ==
    \/ CpuTurn
    \/ Win

SpecCpu == InitCpu /\ [][NextCpu]_vars

----------------------------------------------------------------------------
(* Construction of a round with the whole deck: build_deck, the deal of    *)
(* DealRounds cards to each player and the initial flip.                   *)

InitDeck ==
    \E deck \in Shuffles([i \in AllIds |-> i]) :
        LET g == deal([draw_pile |-> deck, discard_pile |-> <<>>,
                       hands |-> [p \in Players |-> <<>>], current_idx |-> 0,
                       direction |-> 1, current_color |-> None,
                       current_value |-> None, refills |-> <<>>, draws |-> <<>>,
                       uno |-> "none"],
                      DealRounds)
        IN  /\ draw_pile = g.draw_pile
            /\ discard_pile = g.discard_pile
            /\ hands = g.hands
            /\ current_idx = g.current_idx
            /\ direction = g.direction
            /\ current_color = g.current_color
            /\ current_value = g.current_value
            /\ pc = "flip"
            /\ turns = 0
            /\ obs = [op |-> "deal", who |-> 0, card |-> NoCard, chosen |-> None,
                      refills |-> g.refills, draws |-> g.draws, uno |-> g.uno]

NextDeck == FlipInitial

SpecDeck == InitDeck /\ [][NextDeck]_vars

----------------------------------------------------------------------------
(* Vocabulary of the properties *)

coreVars == <<draw_pile, discard_pile, hands, current_idx, direction,
              current_color, current_value>>

Plays == {"You play.", "You play the drawn card.", "Computer plays.",
          "Computer plays drawn card."}
HandPlays == {"You play.", "Computer plays."}
SelectOps == Rejections \cup {"You play."}
IllegalWD4 == "Illegal WD4: You still have the active color in your hand."
NotPlayable == "You can't play that card right now."

Other(p) == (p + 1) % NumPlayers
Min2(a, b) == IF a <= b THEN a ELSE b
IsWildValue(v) == v = "Wild" \/ v = "Wild Draw Four"

\* every card of the deck is in exactly one place of the game c
Conserved(c) ==
    LET all == c.draw_pile \o c.discard_pile \o c.hands[0] \o c.hands[1]
    IN  /\ Len(all) = DeckSize
        /\ Range(all) = CardIds

\* a refill of the step that recycled the discard pile
Recycled(r) == r.pre.draw_pile = <<>> /\ Len(r.pre.discard_pile) > 1

----------------------------------------------------------------------------
(* Deck conservation *)

\* C1: in every state from the deal on, and after every refill a step made,
\* the draw pile, the discard pile and the two hands together hold DeckSize
\* cards (the whole deck: 108 with the source's numbers) and every physical
\* card is in exactly one of those places.
C1_DeckConservation ==
    /\ Conserved(Cur)
    /\ \A i \in 1..Len(obs.refills) : Conserved(obs.refills[i].post)

\* a step recycled the discard pile and then dealt a card out of the new pile
C1_Witness ==
    /\ \E i \in 1..Len(obs.refills) : Recycled(obs.refills[i])
    /\ \E i \in 1..Len(obs.draws) : obs.draws[i].got > 0
    /\ obs.op \in Plays

----------------------------------------------------------------------------
(* Action cards *)

\* C2: when a turn has placed a Draw Two (a Wild Draw Four), the other player
\* was made to draw 2 (4) cards and has lost the turn: the player to move is
\* the one who placed the card.
C2_DrawCardSkipsVictim ==
    (obs.op \in Plays /\ value(obs.card) \in {"Draw Two", "Wild Draw Four"}) =>
        /\ \E i \in 1..Len(obs.draws) :
              /\ obs.draws[i].who = Other(obs.who)
              /\ obs.draws[i].why = value(obs.card)
              /\ obs.draws[i].count = (IF value(obs.card) = "Draw Two" THEN 2 ELSE 4)
        /\ current_idx = obs.who

\* C3: a turn that placed a Skip or a Reverse leaves the placing player to
\* move again; from any state, placing a Reverse of the hand and placing a
\* Skip of the hand leave the same player to move; and the player to move
\* next is the same for either direction.
C3_ReverseIsSkip ==
    /\ (obs.op \in Plays /\ value(obs.card) \in {"Skip", "Reverse"}) =>
           current_idx = obs.who
    /\ pc \in {"loop", "input"} =>
          \A i, j \in 1..Len(hands[current_idx]) :
             LET s == hands[current_idx][i]
                 r == hands[current_idx][j]
             IN  (value(s) = "Skip" /\ value(r) = "Reverse") =>
                    /\ {h.current_idx : h \in play_and_advance(Cur, current_idx, r, None)}
                       = {h.current_idx : h \in play_and_advance(Cur, current_idx, s, None)}
                    /\ \A h \in play_and_advance(Cur, current_idx, r, None) :
                          h.current_idx = current_idx
    /\ \A d \in {1, -1} :
          next_player_index([Cur EXCEPT !.direction = d]) = Other(current_idx)

\* a Reverse has just been placed by a player who also holds a Skip
C3_Witness ==
    /\ obs.op \in Plays
    /\ value(obs.card) = "Reverse"
    /\ current_idx = obs.who
    /\ \E i \in 1..Len(hands[obs.who]) : value(hands[obs.who][i]) = "Skip"

\* C4: a turn that places a numbered card or a plain Wild passes the move to
\* the other player, makes nobody draw for the card (the other hand is the
\* same), sets the active colour and value from the card (for a Wild: the
\* chosen colour and Wild), and, played from the hand with no UNO penalty,
\* changes nothing but the hand and the discard pile, by that one card.
C4_PlainCardsSkipNobody ==
    [][ (obs'.op \in Plays /\ (isdigit(value(obs'.card)) \/ value(obs'.card) = "Wild")) =>
           LET who == obs'.who
               card == obs'.card
               \* the game the placement started from (cpu_turn refills first)
               from == IF obs'.op = "Computer plays." THEN obs'.refills[1].post
                       ELSE Core(Cur)
           IN  /\ current_idx' = Other(who)
               /\ hands'[Other(who)] = hands[Other(who)]
               /\ \A i \in 1..Len(obs'.draws) : obs'.draws[i].why \in {"turn", "penalty"}
               /\ direction' = direction
               /\ current_value' = value(card)
               /\ IF value(card) = "Wild"
                  THEN obs'.chosen \in ColorSet /\ current_color' = obs'.chosen
                  ELSE current_color' = color(card)
               /\ (obs'.op \in HandPlays /\ obs'.uno # "penalty") =>
                      /\ draw_pile' = from.draw_pile
                      /\ discard_pile' = Append(from.discard_pile, card)
                      /\ hands'[who] = RemoveFirst(hands[who], card)
      ]_vars

\* a human has just placed a plain Wild and named a colour
C4_Witness ==
    /\ obs.op = "You play."
    /\ value(obs.card) = "Wild"
    /\ current_color = obs.chosen
    /\ current_idx = Other(obs.who)

----------------------------------------------------------------------------
(* Rejected choices *)

\* the hand holds a card that is not wild and has the active colour
HoldsActiveColor(hand) ==
    \E i \in 1..Len(hand) :
        color(hand[i]) = current_color /\ ~IsWildValue(value(hand[i]))

\* the step left the game as it was and asks the same player again
Rejected ==
    /\ UNCHANGED coreVars
    /\ UNCHANGED turns
    /\ obs'.who = current_idx
    /\ pc' = "input"

\* C5: a human choice of a Wild Draw Four made while the hand holds a
\* non-wild card of the active colour is answered "Illegal WD4", and a step
\* that answers so changes neither hands, piles, active colour, active value
\* nor the player to move, and prompts the same player again.
C5_IllegalWD4Rejected ==
    [][ /\ ( /\ pc = "input"
             /\ obs'.op \in SelectOps
             /\ obs'.card # NoCard
             /\ value(obs'.card) = "Wild Draw Four"
             /\ HoldsActiveColor(hands[current_idx]) ) => obs'.op = IllegalWD4
        /\ obs'.op = IllegalWD4 =>
              /\ Rejected
              /\ value(obs'.card) = "Wild Draw Four"
              /\ HoldsActiveColor(hands[current_idx])
      ]_vars

\* the human has just been refused a Wild Draw Four
C5_Witness ==
    /\ obs.op = IllegalWD4
    /\ pc = "input"
    /\ HoldsActiveColor(hands[current_idx])

\* C6: a human choice that resolves to no card of the hand, or to a card
\* that is not wild and matches neither the active colour nor the active
\* value, is refused, and a refusal changes neither hands, piles, active
\* colour, active value nor the player to move and prompts the same player
\* again; a card is placed from the hand only if it was in the hand and
\* passed that test.
C6_ValidateThenApply ==
    [][ /\ obs'.op \in Rejections => Rejected
        /\ (pc = "input" /\ obs'.op \in SelectOps) =>
              IF obs'.card = NoCard
              THEN obs'.op \in {"Invalid index.", "Couldn't parse that. Try again."}
              ELSE /\ obs'.card \in Range(hands[current_idx])
                   /\ ( /\ ~IsWildValue(value(obs'.card))
                        /\ color(obs'.card) # current_color
                        /\ value(obs'.card) # current_value ) <=> obs'.op = NotPlayable
      ]_vars

\* the human has just been refused a card that does not match
C6_Witness ==
    /\ obs.op = NotPlayable
    /\ pc = "input"
    /\ obs.card \in Range(hands[current_idx])

----------------------------------------------------------------------------
(* The round *)

EmptyHand == \E p \in Players : hands[p] = <<>>

\* C7: no prompt, choice or computer turn is taken from a state in which a
\* hand is empty; from the top of the loop with an empty hand the round can
\* only end; and a round that ended without the human quitting ended with an
\* empty hand.
C7_WinDetection ==
    /\ [][ /\ (pc \in {"loop", "input"} /\ obs'.op # "wins!") => ~EmptyHand
           /\ (pc = "loop" /\ EmptyHand) => (pc' = "over" /\ obs'.op = "wins!")
           /\ obs'.op = "wins!" => (UNCHANGED coreVars /\ hands[obs'.who] = <<>>)
         ]_vars
    /\ [](pc = "over" => (obs.op = "Goodbye!" \/ EmptyHand))

\* the computer has won the round
C7_Witness ==
    /\ pc = "over"
    /\ obs.op = "wins!"
    /\ obs.who = 1
    /\ hands[1] = <<>>

\* C8: when construction has ended, the discard pile holds one card, which
\* is not a wild and gives the active colour and value; after a Skip or a
\* Reverse player 1 is to move and both hands hold DealSize cards (7 in the
\* source); after a Draw Two player 1 is to move and player 0 holds
\* DealSize + 2 cards; after a numbered card player 0 is to move and both
\* hands hold DealSize cards.
C8_InitialState ==
    obs.op = "Starting card" =>
        LET top == discard_pile[1]
        IN  /\ Len(discard_pile) = 1
            /\ top = obs.card
            /\ ~IsWildValue(value(top))
            /\ current_color = color(top) /\ current_value = value(top)
            /\ Len(hands[1]) = DealSize
            /\ IF value(top) \in {"Skip", "Reverse"}
               THEN current_idx = 1 /\ Len(hands[0]) = DealSize
               ELSE IF value(top) = "Draw Two"
               THEN current_idx = 1 /\ Len(hands[0]) = DealSize + 2
               ELSE isdigit(value(top)) /\ current_idx = 0 /\ Len(hands[0]) = DealSize

\* construction has ended on a Draw Two: player 0 drew two cards
C8_Witness ==
    /\ obs.op = "Starting card"
    /\ value(discard_pile[1]) = "Draw Two"
    /\ Len(hands[0]) = DealSize + 2
    /\ current_idx = 1

----------------------------------------------------------------------------
(* The piles *)

\* C9: every refill a step makes with the draw pile empty and more than one
\* card on the discard pile leaves on the discard pile the card that was on
\* top and nothing else, and as draw pile a permutation of the other discard
\* cards; every other refill changes nothing; no refill changes the hands,
\* the active colour, the active value, the player to move or the direction.
C9_RecycleCorrect ==
    \A i \in 1..Len(obs.refills) :
        LET r == obs.refills[i]
        IN  IF r.pre.draw_pile = <<>> /\ Len(r.pre.discard_pile) > 1
            THEN /\ r.post.discard_pile = <<Last(r.pre.discard_pile)>>
                 /\ IsPermutation(r.post.draw_pile, Front(r.pre.discard_pile))
                 /\ r.post.hands = r.pre.hands
                 /\ r.post.current_color = r.pre.current_color
                 /\ r.post.current_value = r.pre.current_value
                 /\ r.post.current_idx = r.pre.current_idx
                 /\ r.post.direction = r.pre.direction
            ELSE r.post = r.pre

\* a step recycled a discard pile of at least three cards
C9_Witness ==
    \E i \in 1..Len(obs.refills) :
        /\ Recycled(obs.refills[i])
        /\ Len(obs.refills[i].pre.discard_pile) >= 3
        /\ Len(obs.refills[i].post.draw_pile) >= 2

\* C10: every draw of a turn (1 card), of a Draw Two (2), of a Wild Draw
\* Four (4) and of the UNO penalty (2) hands over the cards asked for, as far
\* as the draw pile and the discard pile below its top card hold them.
C10_DrawRecyclesWhenShort ==
    \A i \in 1..Len(obs.draws) :
        LET d == obs.draws[i]
        IN  d.why \in {"turn", "Draw Two", "Wild Draw Four", "penalty"} =>
               d.got = Min2(d.count, d.avail + Max2(0, d.discards - 1))
----------------------------------------------------------------------------
(* Last-card declaration *)

HumanPlays == {"You play.", "You play the drawn card."}

\* C11: when the human has placed a card and is left with one card, not
\* declaring UNO makes the hand grow by exactly 2 cards, to 3, through the
\* penalty draw, and declaring leaves the hand at 1 card.
C11_UnoPenalty ==
    (obs.op \in HumanPlays /\ obs.who = 0) =>
        /\ (obs.uno = "penalty" => Len(hands[0]) = 3)
        /\ (obs.uno = "declared" => Len(hands[0]) = 1)
----------------------------------------------------------------------------
(* Exhausted piles *)

ExhaustedPasses == {"No cards to draw! Passing.",
                    "Computer cannot draw (empty pile). Passing."}

\* C12: a step that asks for a turn draw while the draw pile is empty and
\* the discard pile holds at most one card draws zero cards, leaves the
\* hands, both piles, the active colour and the active value as they were,
\* places no card and passes the turn to the other player.
C12_ExhaustedPilesPass ==
    [][ (/\ draw_pile = <<>>
         /\ Len(discard_pile) <= 1
         /\ \E i \in 1..Len(obs'.draws) : obs'.draws[i].why = "turn") =>
            /\ \A i \in 1..Len(obs'.draws) : obs'.draws[i].got = 0
            /\ hands' = hands
            /\ draw_pile' = draw_pile
            /\ discard_pile' = discard_pile
            /\ current_color' = current_color
            /\ current_value' = current_value
            /\ obs'.op \in ExhaustedPasses
            /\ obs'.card = NoCard
            /\ obs'.who = current_idx
            /\ current_idx' = Other(current_idx)
            /\ pc' = "loop" ]_vars

\* the computer has just asked for a turn draw with nothing left to draw,
\* and the human is to move
C12_Witness ==
    /\ obs.op = "Computer cannot draw (empty pile). Passing."
    /\ \E i \in 1..Len(obs.draws) : obs.draws[i].why = "turn" /\ obs.draws[i].got = 0
    /\ draw_pile = <<>>
    /\ Len(discard_pile) <= 1
    /\ current_idx = 0
----------------------------------------------------------------------------
(* Legality of the playable cards *)

\* the card is wild, or of the active colour, or of the active value
Legal(c) ==
    \/ IsWildValue(value(c))
    \/ color(c) = current_color
    \/ value(c) = current_value

\* r lists exactly the legal cards of hand, in the order of hand
ExactlyLegal(r, hand) ==
    LET idx == {i \in 1..Len(hand) : Legal(hand[i])}
    IN  /\ Len(r) = Cardinality(idx)
        /\ \A k \in 1..Len(r) :
              r[k] = hand[CHOOSE i \in idx : Cardinality({j \in idx : j <= i}) = k]

\* C13: for every hand and every active colour and value, playable_cards
\* returns exactly the cards of the hand, in hand order, that are wild or
\* whose colour is the active colour or whose value is the active value:
\* every wild card (Wild Draw Four too) is in it and no other card is.
C13_PlayableSound ==
    \A p \in Players :
        LET r == playable_cards(Cur, hands[p])
        IN  /\ ExactlyLegal(r, hands[p])
            /\ \A i \in 1..Len(hands[p]) :
                  IsWildValue(value(hands[p][i])) => hands[p][i] \in Range(r)

\* the computer has just placed a card out of the playable cards of a hand
\* that held a Wild Draw Four, a card matching by colour only, a card
\* matching by value only and a card that did not match
C13_Witness ==
    /\ obs.op = "Computer plays."
    /\ LET pre == obs.refills[1].post
           hand == pre.hands[1]
           r == playable_cards(pre, hand)
       IN  /\ \E i \in 1..Len(hand) : value(hand[i]) = "Wild Draw Four"
           /\ \E i \in 1..Len(hand) :
                 color(hand[i]) = pre.current_color /\ value(hand[i]) # pre.current_value
           /\ \E i \in 1..Len(hand) :
                 value(hand[i]) = pre.current_value /\ color(hand[i]) # pre.current_color
           /\ \E i \in 1..Len(hand) :
                 /\ ~IsWildValue(value(hand[i]))
                 /\ color(hand[i]) # pre.current_color
                 /\ value(hand[i]) # pre.current_value
           /\ obs.card \in Range(r)
           /\ Len(r) >= 3
           /\ Len(r) < Len(hand)
----------------------------------------------------------------------------
(* Deck composition *)

\* how many cards of the list have this colour and this value
HowMany(cards, col, val) ==
    Cardinality({i \in 1..Len(cards) : color(cards[i]) = col /\ value(cards[i]) = val})

FourColors == {"Red", "Green", "Blue", "Yellow"}

\* C14: the deck built for a round holds exactly 108 cards: for each of the
\* 4 colours one 0, two of each of 1..9 and two of each of Skip, Reverse and
\* Draw Two, 25 in all, and 4 Wild and 4 Wild Draw Four; every card that is
\* not wild has one of the 4 colours and every wild card has none.
C14_DeckComposition ==
    LET cards == draw_pile \o discard_pile \o hands[0] \o hands[1]
    IN  /\ Len(cards) = 108
        /\ Cardinality(Range(cards)) = Len(cards)
        /\ \A col \in FourColors :
              /\ HowMany(cards, col, "0") = 1
              /\ \A d \in {"1", "2", "3", "4", "5", "6", "7", "8", "9"} :
                    HowMany(cards, col, d) = 2
              /\ \A a \in {"Skip", "Reverse", "Draw Two"} : HowMany(cards, col, a) = 2
              /\ Cardinality({i \in 1..Len(cards) : color(cards[i]) = col}) = 25
        /\ HowMany(cards, None, "Wild") = 4
        /\ HowMany(cards, None, "Wild Draw Four") = 4
        /\ \A i \in 1..Len(cards) :
              IF IsWildValue(value(cards[i]))
              THEN color(cards[i]) = None
              ELSE color(cards[i]) \in FourColors

\* the deck has been built, shuffled and dealt, 7 cards to each player, and
\* a starting card has been flipped
C14_Witness ==
    /\ pc = "loop"
    /\ obs.op = "Starting card"
    /\ Len(hands[0]) + Len(hands[1]) >= 14
    /\ Len(discard_pile) = 1
----------------------------------------------------------------------------
(* The computer's choice of a card *)

\* the game a computer turn chose its card in: the game it was entered
\* with, after its refill
Chosen == obs.refills[1].post

\* card c could be played in the game g
PlayableIn(g, c) ==
    \/ IsWildValue(value(c))
    \/ color(c) = g.current_color
    \/ value(c) = g.current_value

\* the computer's hand in g holds 4s of two different colours and no other
\* digit twice, all its 4s and a Skip are playable, and the human holds more
\* than 2 cards
TwoFoursAndSkip(g) ==
    LET hand == g.hands[1]
    IN  /\ \E i, j \in 1..Len(hand) :
              value(hand[i]) = "4" /\ value(hand[j]) = "4" /\ color(hand[i]) # color(hand[j])
        /\ \A i, j \in 1..Len(hand) :
              (i # j /\ value(hand[i]) \in DigitSet /\ value(hand[i]) = value(hand[j]))
                 => value(hand[i]) = "4"
        /\ \A i \in 1..Len(hand) : value(hand[i]) = "4" => PlayableIn(g, hand[i])
        /\ \E i \in 1..Len(hand) : value(hand[i]) = "Skip" /\ PlayableIn(g, hand[i])
        /\ Len(g.hands[0]) > 2

\* the computer's hand in g holds no playable Draw Two and at most 5 cards
\* of the colour of any playable Skip
NoStrongerCard(g) ==
    LET hand == g.hands[1]
    IN  /\ \A i \in 1..Len(hand) : value(hand[i]) = "Draw Two" => ~PlayableIn(g, hand[i])
        /\ \A i \in 1..Len(hand) :
              (value(hand[i]) = "Skip" /\ PlayableIn(g, hand[i])) =>
                 Cardinality({j \in 1..Len(hand) : color(hand[j]) = color(hand[i])}) <= 5

\* C15 as stated: whenever the computer's hand holds 4s of two different
\* colours and no other duplicated digit, the playable cards include both 4s
\* and a Skip and the human holds more than 2 cards, the computer places a 4
\* and not the Skip.
C15_DuplicateDigitPreferred ==
    (obs.op = "Computer plays." /\ TwoFoursAndSkip(Chosen)) => value(obs.card) = "4"

\* C15, amended: in that case the computer places a 4 and not the Skip
\* provided no Draw Two is playable and the computer holds at most 5 cards
\* of the Skip's colour.
C15_DuplicateDigitPreferredAmended ==
    (obs.op = "Computer plays." /\ TwoFoursAndSkip(Chosen) /\ NoStrongerCard(Chosen)) =>
        value(obs.card) = "4"

\* the computer has just placed a 4 although a Skip and both its 4s were
\* playable
C15_Witness ==
    /\ obs.op = "Computer plays."
    /\ TwoFoursAndSkip(Chosen)
    /\ NoStrongerCard(Chosen)
    /\ value(obs.card) = "4"
    /\ Len(Chosen.hands[1]) >= 4
----------------------------------------------------------------------------
(* The computer's choice of a colour *)

CpuPlays == {"Computer plays.", "Computer plays drawn card."}
Priority == <<"Red", "Green", "Blue", "Yellow">>

\* how many cards of the hand have this colour
Held(hand, col) == Cardinality({i \in 1..Len(hand) : color(hand[i]) = col})

\* the colour held most in the hand, the first in Priority of those
MostHeld(hand) ==
    Priority[CHOOSE i \in 1..Len(Priority) :
                /\ \A j \in 1..Len(Priority) : Held(hand, Priority[j]) <= Held(hand, Priority[i])
                /\ \A j \in 1..(i - 1) : Held(hand, Priority[j]) # Held(hand, Priority[i])]

\* C16: whenever the computer has placed a Wild or a Wild Draw Four and its
\* hand, after the play, holds at least one coloured card, the active colour
\* is the colour held most in that hand, ties going to the first of Red,
\* Green, Blue, Yellow.
C16_CpuColorChoice ==
    (/\ obs.op \in CpuPlays
     /\ IsWildValue(value(obs.card))
     /\ \E i \in 1..Len(hands[1]) : color(hands[1][i]) \in FourColors) =>
        /\ obs.chosen = MostHeld(hands[1])
        /\ current_color = MostHeld(hands[1])

\* the computer has just placed a wild card holding as many cards of the
\* colour it chose as of a colour later in the priority
C16_Witness ==
    /\ obs.op \in CpuPlays
    /\ IsWildValue(value(obs.card))
    /\ \E col \in FourColors :
          /\ col # current_color
          /\ Held(hands[1], col) = Held(hands[1], current_color)
          /\ Held(hands[1], col) > 0
    /\ current_color = MostHeld(hands[1])
    /\ current_color # "Red"
----------------------------------------------------------------------------
(* Determinism of the computer *)

\* C17: the computer's decision has no randomness in it: whenever it is to
\* move, any two runs of its turn from the state choose the same card out
\* of the hand and, for the same card placed, the same colour.
C17_CpuDeterministic ==
    (pc = "loop" /\ current_idx = 1 /\ Len(hands[0]) > 0 /\ Len(hands[1]) > 0) =>
        \A o1, o2 \in cpu_turn(Cur, 1) :
            /\ o1.op = "Computer plays." => (o2.op = o1.op /\ o2.card = o1.card)
            /\ (o1.op = o2.op /\ o1.card = o2.card) => o1.chosen = o2.chosen
----------------------------------------------------------------------------
(* Placed cards *)

\* the draw pile a step's turn draw took its card from
DrawnFrom(o) == o.refills[1].post.draw_pile

\* C18: a card a turn places on the discard pile, on any of the four paths
\* (the human's choice out of the hand, the human's just-drawn card, the
\* computer's best card, the computer's just-drawn card), was in the acting
\* player's hand - held before the turn or drawn in it by that player's
\* turn draw - and was wild or of the active colour or of the active value
\* when it was placed; it has left the hand and tops the discard pile.
C18_PlacedCardsLegal ==
    [][ obs'.op \in Plays =>
           LET who == obs'.who
               card == obs'.card
           IN  /\ who = current_idx
               /\ IF obs'.op \in HandPlays
                  THEN /\ card \in Range(hands[who])
                       /\ \A i \in 1..Len(obs'.draws) : obs'.draws[i].why # "turn"
                  ELSE /\ card \notin Range(hands[who])
                       /\ DrawnFrom(obs') # <<>>
                       /\ card = Last(DrawnFrom(obs'))
                       /\ obs'.draws[1].who = who
                       /\ obs'.draws[1].why = "turn"
                       /\ obs'.draws[1].got = 1
               /\ \/ IsWildValue(value(card))
                  \/ color(card) = current_color
                  \/ value(card) = current_value
               /\ card \notin Range(hands'[who])
               /\ Last(discard_pile') = card ]_vars

\* the computer has just placed the card it drew, a card matching by value
\* only
C18_Witness ==
    /\ obs.op = "Computer plays drawn card."
    /\ Last(discard_pile) = obs.card
    /\ ~IsWildValue(value(obs.card))
    /\ Len(discard_pile) >= 2
    /\ color(discard_pile[Len(discard_pile) - 1]) # color(obs.card)
    /\ value(discard_pile[Len(discard_pile) - 1]) = value(obs.card)

\* C19: no turn places a Wild Draw Four - the human out of the hand, either
\* player as the card just drawn, the computer as its best card - while the
\* placing player's hand holds a card that is not wild and has the active
\* colour of that moment.
C19_NoIllegalWD4 ==
    [][ (obs'.op \in Plays /\ value(obs'.card) = "Wild Draw Four") =>
           \A i \in 1..Len(hands[obs'.who]) :
              LET c == hands[obs'.who][i]
              IN  IsWildValue(value(c)) \/ color(c) # current_color ]_vars

\* the computer's best card was a Wild Draw Four, placed from a hand that
\* keeps a coloured card
C19_Witness ==
    /\ obs.op = "Computer plays."
    /\ value(obs.card) = "Wild Draw Four"
    /\ \E i \in 1..Len(hands[1]) : ~IsWildValue(value(hands[1][i]))

\* the discard pile of g has a top card and the active colour and value of
\* g go with it
ActiveConsistent(g) ==
    /\ g.discard_pile # <<>>
    /\ g.current_color \in FourColors
    /\ g.current_value = value(Last(g.discard_pile))
    /\ ~IsWildValue(value(Last(g.discard_pile))) =>
          g.current_color = color(Last(g.discard_pile))

\* C20: in every state after the initial flip the discard pile is not
\* empty, the active colour is one of the four colours, the active value is
\* the value of the top card of the discard pile and, that card not being
\* wild, the active colour is its colour; every recycle of the discard pile
\* leaves all of this true, with the same top card, colour and value.
C20_ActiveStateConsistent ==
    pc # "flip" =>
        /\ ActiveConsistent(Cur)
        /\ \A i \in 1..Len(obs.refills) :
              LET r == obs.refills[i]
              IN  Recycled(r) =>
                     /\ ActiveConsistent(r.post)
                     /\ Last(r.post.discard_pile) = Last(r.pre.discard_pile)
                     /\ r.post.current_color = r.pre.current_color
                     /\ r.post.current_value = r.pre.current_value

\* a step has recycled a discard pile topped by a wild card whose chosen
\* colour stays active
C20_Witness ==
    /\ pc # "flip"
    /\ \E i \in 1..Len(obs.refills) :
          /\ Recycled(obs.refills[i])
          /\ IsWildValue(value(Last(obs.refills[i].post.discard_pile)))
          /\ obs.refills[i].post.current_color \in FourColors
    /\ ActiveConsistent(Cur)
----------------------------------------------------------------------------
(* The computer saves its Wilds *)

\* the computer's hand in g holds a playable card that is not wild
HoldsPlayableNonWild(g) ==
    \E i \in 1..Len(g.hands[1]) :
        /\ ~IsWildValue(value(g.hands[1][i]))
        /\ PlayableIn(g, g.hands[1][i])

\* C21: in a computer turn whose playable cards include a card that is not
\* wild, the card the computer places is not a plain Wild.
C21_CpuSavesWilds ==
    (obs.op \in CpuPlays /\ HoldsPlayableNonWild(Chosen)) => value(obs.card) # "Wild"

\* the computer held a Wild and a single playable card that is not wild, a
\* digit of a colour it holds once and of a value it holds once, and has
\* just placed that digit
C21_Witness ==
    /\ obs.op = "Computer plays."
    /\ HoldsPlayableNonWild(Chosen)
    /\ \E i \in 1..Len(Chosen.hands[1]) : value(Chosen.hands[1][i]) = "Wild"
    /\ value(obs.card) \in DigitSet
    /\ Cardinality({i \in 1..Len(Chosen.hands[1]) :
                       ~IsWildValue(value(Chosen.hands[1][i]))
                       /\ PlayableIn(Chosen, Chosen.hands[1][i])}) = 1
    /\ Cardinality({i \in 1..Len(Chosen.hands[1]) :
                       color(Chosen.hands[1][i]) = color(obs.card)}) = 1
    /\ Cardinality({i \in 1..Len(Chosen.hands[1]) :
                       value(Chosen.hands[1][i]) = value(obs.card)}) = 1

=============================================================================
